---- MODULE Spec2Model ----
(***************************************************************************)
(* Model of pdf_compressor.py: the command-line run (main), the batch      *)
(* loop (PDFCompressor.compress_batch), one job (PDFCompressor.            *)
(* compress_file) with its target-size search and its single-shot path,    *)
(* and the three invokers (compress_with_ghostscript_advanced,             *)
(* compress_with_ghostscript, compress_with_pypdf) acting on a file        *)
(* system.                                                                 *)
(*                                                                         *)
(* A path is a record [dir, stem, suffix]; a stem is a sequence of tokens  *)
(* that the file name joins with "_", so "temp_a_compressed.pdf" is        *)
(* [stem |-> <<"temp","a","compressed">>, suffix |-> "pdf"].  An optional  *)
(* value (Python None or a value) is the empty or the one-element          *)
(* sequence.                                                               *)
(***************************************************************************)
EXTENDS Integers, Sequences, FiniteSets, TLC

VARIABLES
    pc,                 \* position of the run
    fs,                 \* the file system: existing path -> content
    platform,           \* platform.system() of the run
    PYPDF_AVAILABLE,    \* module flag set by the imports
    args,               \* the parsed command line
    input_files,        \* expand_file_patterns(args.input)
    compression_level,  \* PDFCompressor.compression_level
    target_size_bytes,  \* PDFCompressor.target_size_bytes (optional)
    i,                  \* compress_batch: index of the job in progress
    results,            \* compress_batch: results
    job,                \* compress_file: its locals
    last,               \* the last invoker call of the job and its effect
    ret,                \* the value compress_file returned last
    raised,             \* the exception that ended the run, if any
    exit_code,          \* the process exit status
    engine,             \* a deterministic engine: its outcome for each
                        \* configuration and for the fallback; <<>> when the
                        \* engine is free to end in any way
    first_run           \* what the first of two runs selected, once it is over

vars == <<pc, fs, platform, PYPDF_AVAILABLE, args, input_files,
          compression_level, target_size_bytes, i, results, job, last,
          ret, raised, exit_code, engine, first_run>>

----------------------------------------------------------------------------
(* Bounds *)

MaxInputs == 2

----------------------------------------------------------------------------
(* Paths and the file system *)

None == <<>>

Some(v) == <<v>>

IsSome(o) == Len(o) = 1

Val(o) == o[1]

P(d, s, x) == [dir |-> d, stem |-> s, suffix |-> x]

\* input_path.parent / f"{input_path.stem}_compressed.pdf"
DerivedOutput(d, input_path) ==
    P(d, input_path.stem \o <<"compressed">>, "pdf")

TempOutputInPlace(output_path) == output_path

\* output_path.parent / f"temp_{output_path.name}"
TempOutput(output_path) ==
    P(output_path.dir, <<"temp">> \o output_path.stem, output_path.suffix)

Exists(f, p) == p \in DOMAIN f

\* writing (or replacing) the file at p
Put(f, p, c) == [q \in (DOMAIN f) \cup {p} |-> IF q = p THEN c ELSE f[q]]

\* Path.unlink(missing_ok=True)
Unlink(f, p) == [q \in (DOMAIN f) \ {p} |-> f[q]]

\* PDFCompressor.get_file_size
get_file_size(f, p) == f[p].size

----------------------------------------------------------------------------
(* The files of the run's world and the values the command line may carry *)

A == P("d1", <<"a">>, "pdf")

TA == P("d1", <<"temp", "a">>, "pdf")

AC == P("d1", <<"a", "compressed">>, "pdf")

E == P("d1", <<"e">>, "pdf")

M == P("d1", <<"m">>, "pdf")

NOTES == P("d1", <<"notes">>, "txt")

Orig(n) == [kind |-> "orig", size |-> n]

\* the files present when the run starts: E is a zero-byte file, AC is the
\* output of an earlier run on A, M does not exist
World ==
    (A :> Orig(4096)) @@ (TA :> Orig(4096)) @@ (AC :> Orig(1049)) @@
    (E :> Orig(0)) @@ (NOTES :> Orig(10))

ArgPaths == {A, TA, AC, E, M, NOTES}

\* the positional arguments: up to MaxInputs different paths
ArgLists ==
    {s \in UNION {[1..n -> ArgPaths] : n \in 1..MaxInputs} :
        \A a, b \in DOMAIN s : a # b => s[a] # s[b]}

OutputArgs == {None, Some(A)}

OutputDirArgs == {None, Some("d2"), Some("ro")}

\* --target-size-mb, in thousandths of a megabyte
TargetArgs == {None, Some(0), Some(1)}

\* directories that cannot be created (mkdir raises PermissionError)
UnwritableDirs == {"ro"}

\* sizes a complete engine output may have
CandSizes == {1048, 1049}

Systems == {"Linux", "Windows"}

----------------------------------------------------------------------------
(* The invokers *)

\* what one run of the external process (or of the library) does: it ends
\* with status 0 and a complete file, fails without writing, fails after
\* writing part of the file, or is interrupted by the user (with or without
\* part of the file written)
Outcomes ==
    [res : {"ok"}, size : CandSizes] \cup
    [res : {"fail", "partial", "int", "int_partial"}, size : {0}]

Interrupted(o) == o.res \in {"int", "int_partial"}

\* subprocess.run(cmd, ...) with -sOutputFile=output_path
EngineRun(f, output_path, o) ==
    CASE o.res = "ok" -> Put(f, output_path, [kind |-> "out", size |-> o.size])
      [] o.res \in {"partial", "int_partial"} ->
            Put(f, output_path, [kind |-> "partial", size |-> 1])
      [] OTHER -> f

\* result.returncode == 0
ReturnsTrue(o) == o.res = "ok"

gs_settings ==
    [low |-> "/ebook", medium |-> "/printer", high |-> "/prepress",
     maximum |-> "/screen"]

\* the values of --quality the runs are given
QualityArgs == {"medium", "maximum"}

\* compress_with_ghostscript: the preset of the command line
gs_quality(level, override_quality) ==
    IF IsSome(override_quality) THEN Val(override_quality)
    ELSE gs_settings[level]

\* compress_with_ghostscript: the file system after the call and its result;
\* an exception of the call is caught and False returned, a failure leaves
\* whatever the process wrote
compress_with_ghostscript(f, output_path, o) ==
    [fs |-> EngineRun(f, output_path, o), ret |-> ReturnsTrue(o)]

\* compress_with_ghostscript_advanced: the same with the image settings
compress_with_ghostscript_advanced(f, output_path, o) ==
    [fs |-> EngineRun(f, output_path, o), ret |-> ReturnsTrue(o)]

\* compress_with_pypdf: open(output_path, 'wb') and pdf_writer.write
compress_with_pypdf(f, output_path, o) ==
    [fs |-> EngineRun(f, output_path, o), ret |-> ReturnsTrue(o)]

\* the record of an invoker call: what was asked, what it returned, and
\* whether the requested output file was present when it returned
Call(tool, preset, dpi, jpeg_q, out, r) ==
    [tool |-> tool, preset |-> preset, dpi |-> dpi, jpeg_q |-> jpeg_q,
     out |-> out, ok |-> r.ret, present |-> Exists(r.fs, out),
     size |-> IF Exists(r.fs, out) THEN r.fs[out].size ELSE 0]

NoPath == P("", <<>>, "")

NoCall ==
    [tool |-> "none", preset |-> "", dpi |-> 0, jpeg_q |-> 0, out |-> NoPath,
     ok |-> FALSE, present |-> FALSE, size |-> 0]

----------------------------------------------------------------------------
(* compress_file *)

\* the table with the entries "balanced" and "compact" exchanged
configsExchanged ==
    << [preset |-> "/prepress", desc |-> "high quality", dpi |-> 300, jpeg_q |-> 90],
       [preset |-> "/printer", desc |-> "good quality", dpi |-> 200, jpeg_q |-> 80],
       [preset |-> "/ebook", desc |-> "compact", dpi |-> 150, jpeg_q |-> 70],
       [preset |-> "/printer", desc |-> "balanced", dpi |-> 150, jpeg_q |-> 75],
       [preset |-> "/screen", desc |-> "minimal", dpi |-> 100, jpeg_q |-> 60] >>

configs ==
    << [preset |-> "/prepress", desc |-> "high quality", dpi |-> 300, jpeg_q |-> 90],
       [preset |-> "/printer", desc |-> "good quality", dpi |-> 200, jpeg_q |-> 80],
       [preset |-> "/printer", desc |-> "balanced", dpi |-> 150, jpeg_q |-> 75],
       [preset |-> "/ebook", desc |-> "compact", dpi |-> 150, jpeg_q |-> 70],
       [preset |-> "/screen", desc |-> "minimal", dpi |-> 100, jpeg_q |-> 60] >>

MeetsTargetStrictly(size, target) == size < target

\* size <= self.target_size_bytes
MeetsTarget(size, target) == size <= target

\* temp_output.rename(output_path): replaces the target on POSIX, raises
\* FileExistsError on Windows when the target exists
RenameRaises(system, f, dst) == system = "Windows" /\ Exists(f, dst)

Rename(f, src, dst) == Unlink(Put(f, dst, f[src]), src)

\* the locals of compress_file; cfg is the position in configs, accepted the
\* position of the configuration whose candidate was moved to output_path,
\* met whether a candidate of the job met the target, gs_calls, adv_calls
\* and lib_calls count the invoker calls of the job
NoJob ==
    [input_path |-> NoPath, output_path |-> NoPath, original_size |-> 0,
     success |-> FALSE, cfg |-> 0, accepted |-> 0, met |-> FALSE,
     adv_calls |-> 0, gs_calls |-> 0, lib_calls |-> 0, gs_ok |-> FALSE]

NewJob(input_path, output_path, original_size) ==
    [NoJob EXCEPT !.input_path = input_path, !.output_path = output_path,
                  !.original_size = original_size, !.cfg = 1]

\* what compress_file returns: (success, path)
NoRet == [success |-> FALSE, path |-> NoPath]

\* sys.exit(code), or the end of the process by an exception
Exit(code, exc) ==
    /\ pc' = "exited"
    /\ exit_code' = code
    /\ raised' = exc

\* compress_file, lines 315-334: the checks of the input, the output path,
\* mkdir of its directory and the size of the input
compress_file_call(input_path, output_opt) ==
    /\ last' = NoCall
    /\ ret' = NoRet
    /\ IF ~Exists(fs, input_path) \/ input_path.suffix # "pdf"
       THEN /\ job' = [NoJob EXCEPT !.input_path = input_path]
            /\ pc' = "rejected"
            /\ UNCHANGED <<raised, exit_code>>
       ELSE LET output_path ==
                    IF IsSome(output_opt) THEN Val(output_opt)
                    ELSE DerivedOutput(input_path.dir, input_path)
            IN  IF output_path.dir \in UnwritableDirs
                THEN /\ job' = [NoJob EXCEPT !.input_path = input_path,
                                             !.output_path = output_path]
                     /\ Exit("1", "PermissionError")
                ELSE /\ job' = NewJob(input_path, output_path,
                                      get_file_size(fs, input_path))
                     /\ pc' = IF IsSome(target_size_bytes) THEN "search"
                              ELSE "oneshot"
                     /\ UNCHANGED <<raised, exit_code>>

\* the ways the k-th engine call of the search can end: call k is the one
\* for configs[k], call Len(configs) + 1 the fallback with /screen
EngineOutcomes(k) == IF engine = <<>> THEN Outcomes ELSE {engine[k]}

\* compress_file, lines 347-365: one iteration of the loop over configs
search_try_config ==
    /\ UNCHANGED <<engine, first_run>>
    /\ pc = "search"
    /\ \E o \in EngineOutcomes(job.cfg) :
        LET c == configs[job.cfg]
            temp_output == TempOutput(job.output_path)
            r == compress_with_ghostscript_advanced(fs, temp_output, o)
            j1 == [job EXCEPT !.adv_calls = @ + 1]
            more == job.cfg < Len(configs)
        IN  /\ last' = Call("gs_advanced", c.preset, c.dpi, c.jpeg_q,
                            temp_output, r)
            /\ IF Interrupted(o)
               THEN /\ fs' = r.fs
                    /\ job' = j1
                    /\ Exit("1", "KeyboardInterrupt")
               ELSE IF r.ret /\ Exists(r.fs, temp_output)
               THEN LET size == get_file_size(r.fs, temp_output)
                        fits == MeetsTarget(size, Val(target_size_bytes))
                    IN  IF fits /\ ~RenameRaises(platform, r.fs, job.output_path)
                        THEN /\ fs' = Rename(r.fs, temp_output, job.output_path)
                             /\ job' = [j1 EXCEPT !.success = TRUE,
                                                  !.accepted = job.cfg,
                                                  !.met = TRUE]
                             /\ pc' = "finish"
                             /\ UNCHANGED <<raised, exit_code>>
                        ELSE /\ fs' = Unlink(r.fs, temp_output)
                             /\ job' = [j1 EXCEPT !.cfg = @ + 1,
                                          !.met = @ \/ size <= Val(target_size_bytes)]
                             /\ pc' = IF more THEN "search" ELSE "fallback"
                             /\ UNCHANGED <<raised, exit_code>>
               ELSE /\ fs' = r.fs
                    /\ job' = [j1 EXCEPT !.cfg = @ + 1]
                    /\ pc' = IF more THEN "search" ELSE "fallback"
                    /\ UNCHANGED <<raised, exit_code>>
    /\ UNCHANGED <<platform, PYPDF_AVAILABLE, args, input_files,
                   compression_level, target_size_bytes, i, results, ret>>

\* compress_file, lines 368-371: no configuration met the target
search_fallback ==
    /\ UNCHANGED <<engine, first_run>>
    /\ pc = "fallback"
    /\ \E o \in EngineOutcomes(Len(configs) + 1) :
        LET r == compress_with_ghostscript(fs, job.output_path, o)
            j1 == [job EXCEPT !.gs_calls = @ + 1, !.gs_ok = r.ret]
        IN  /\ last' = Call("gs", gs_quality(compression_level, Some("/screen")),
                            0, 0, job.output_path, r)
            /\ fs' = r.fs
            /\ IF Interrupted(o)
               THEN job' = j1 /\ Exit("1", "KeyboardInterrupt")
               ELSE /\ job' = [j1 EXCEPT !.success = r.ret]
                    /\ pc' = "finish"
                    /\ UNCHANGED <<raised, exit_code>>
    /\ UNCHANGED <<platform, PYPDF_AVAILABLE, args, input_files,
                   compression_level, target_size_bytes, i, results, ret>>

TriesLibraryAlways(gs_ret, pypdf_available) == pypdf_available

\* whether compress_file goes on to the library after the engine attempt
TriesLibrary(gs_ret, pypdf_available) == ~gs_ret /\ pypdf_available

\* compress_file, line 374: the engine attempt of the single-shot path
oneshot_ghostscript ==
    /\ UNCHANGED <<engine, first_run>>
    /\ pc = "oneshot"
    /\ \E o \in Outcomes :
        LET r == compress_with_ghostscript(fs, job.output_path, o)
            j1 == [job EXCEPT !.gs_calls = @ + 1, !.gs_ok = r.ret]
        IN  /\ last' = Call("gs", gs_quality(compression_level, None),
                            0, 0, job.output_path, r)
            /\ fs' = r.fs
            /\ IF Interrupted(o)
               THEN job' = j1 /\ Exit("1", "KeyboardInterrupt")
               ELSE /\ job' = [j1 EXCEPT !.success = r.ret]
                    /\ pc' = IF TriesLibrary(r.ret, PYPDF_AVAILABLE)
                             THEN "library" ELSE "finish"
                    /\ UNCHANGED <<raised, exit_code>>
    /\ UNCHANGED <<platform, PYPDF_AVAILABLE, args, input_files,
                   compression_level, target_size_bytes, i, results, ret>>

\* compress_file, line 379: the library attempt of the single-shot path
oneshot_pypdf ==
    /\ UNCHANGED <<engine, first_run>>
    /\ pc = "library"
    /\ \E o \in Outcomes :
        LET r == compress_with_pypdf(fs, job.output_path, o)
            j1 == [job EXCEPT !.lib_calls = @ + 1]
        IN  /\ last' = Call("pypdf", "", 0, 0, job.output_path, r)
            /\ fs' = r.fs
            /\ IF Interrupted(o)
               THEN job' = j1 /\ Exit("1", "KeyboardInterrupt")
               ELSE /\ job' = [j1 EXCEPT !.success = r.ret]
                    /\ pc' = "finish"
                    /\ UNCHANGED <<raised, exit_code>>
    /\ UNCHANGED <<platform, PYPDF_AVAILABLE, args, input_files,
                   compression_level, target_size_bytes, i, results, ret>>

\* compress_file, lines 383-393 (and 315-321 for a rejected input): the
\* value returned
Returned(f, j, rejected) ==
    IF ~rejected /\ j.success /\ Exists(f, j.output_path)
    THEN [success |-> TRUE, path |-> j.output_path]
    ELSE [success |-> FALSE, path |-> j.input_path]

\* compression_ratio = (1 - compressed_size / original_size) * 100
RatioRaises(f, j, rejected) ==
    /\ Returned(f, j, rejected).success
    /\ j.original_size = 0

Single == Len(input_files) = 1

\* the return of compress_file to its caller: main (lines 619-626) exits
\* with the job's status, compress_batch (line 423) appends the result and
\* goes on; an exception of the job reaches main (lines 647-652)
compress_file_return ==
    /\ UNCHANGED <<engine, first_run>>
    /\ pc \in {"finish", "rejected"}
    /\ LET v == Returned(fs, job, pc = "rejected")
       IN  IF RatioRaises(fs, job, pc = "rejected")
           THEN /\ Exit("1", "ZeroDivisionError")
                /\ UNCHANGED <<ret, results, i>>
           ELSE /\ ret' = v
                /\ IF Single
                   THEN /\ Exit(IF v.success THEN "0" ELSE "1", "none")
                        /\ UNCHANGED <<results, i>>
                   ELSE /\ results' = Append(results,
                                [success |-> v.success,
                                 input_path |-> job.input_path,
                                 output_path |-> v.path])
                        /\ i' = i + 1
                        /\ pc' = "dispatch"
                        /\ UNCHANGED <<raised, exit_code>>
    /\ UNCHANGED <<fs, platform, PYPDF_AVAILABLE, args, input_files,
                   compression_level, target_size_bytes, job, last>>

----------------------------------------------------------------------------
(* compress_batch and main *)

\* expand_file_patterns: the existing paths of the command line with a .pdf
\* suffix, in command-line order
expand_file_patterns(f, patterns) ==
    SelectSeq(patterns, LAMBDA q : Exists(f, q) /\ q.suffix = "pdf")

\* int(x): truncation towards zero of n / d
Trunc(n, d) == IF n >= 0 THEN n \div d ELSE -((-n) \div d)

\* main, line 607: int(args.target_size_mb * 1024 * 1024) if
\* getattr(args, 'target_size_mb', None) else None
Truthy(target_size_mb) == IsSome(target_size_mb) /\ Val(target_size_mb) # 0

target_bytes(target_size_mb) ==
    IF Truthy(target_size_mb)
    THEN Some(Trunc(Val(target_size_mb) * 1024 * 1024, 1000))
    ELSE None

NoArgs ==
    [output |-> None, output_dir |-> None, quality |-> "medium",
     target_size_mb |-> None]

\* main, lines 589-608: parse_arguments, check_dependencies,
\* expand_file_patterns, the check of --output and the compressor.  A user
\* interrupt here is outside main's try block: the interpreter ends the
\* process by SIGINT.
main_startup ==
    /\ UNCHANGED <<engine, first_run>>
    /\ pc = "start"
    /\ \E input \in ArgLists, output \in OutputArgs,
          output_dir \in OutputDirArgs, quality \in QualityArgs,
          target_size_mb \in TargetArgs, interrupt \in BOOLEAN :
        LET pdf_files == expand_file_patterns(fs, input)
            parsed == [output |-> output, output_dir |-> output_dir,
                       quality |-> quality,
                       target_size_mb |-> target_size_mb]
        IN  IF interrupt
            THEN /\ Exit("SIGINT", "KeyboardInterrupt")
                 /\ UNCHANGED <<args, input_files, compression_level,
                                target_size_bytes>>
            ELSE IF ~PYPDF_AVAILABLE
            THEN /\ Exit("1", "none")
                 /\ args' = parsed
                 /\ UNCHANGED <<input_files, compression_level,
                                target_size_bytes>>
            ELSE IF pdf_files = <<>>
            THEN /\ Exit("1", "none")
                 /\ args' = parsed
                 /\ UNCHANGED <<input_files, compression_level,
                                target_size_bytes>>
            ELSE IF Len(pdf_files) > 1 /\ IsSome(output)
            THEN /\ Exit("1", "none")
                 /\ args' = parsed
                 /\ input_files' = pdf_files
                 /\ UNCHANGED <<compression_level, target_size_bytes>>
            ELSE /\ args' = parsed
                 /\ input_files' = pdf_files
                 /\ compression_level' = quality
                 /\ target_size_bytes' = target_bytes(target_size_mb)
                 /\ pc' = "dispatch"
                 /\ UNCHANGED <<raised, exit_code>>
    /\ UNCHANGED <<fs, platform, PYPDF_AVAILABLE, i, results, job, last, ret>>

\* main, lines 611-619: the single file and its output path
main_single ==
    /\ UNCHANGED <<engine, first_run>>
    /\ pc = "dispatch"
    /\ Single
    /\ LET input_file == input_files[1]
           output_file ==
               IF IsSome(args.output_dir)
               THEN Some(DerivedOutput(Val(args.output_dir), input_file))
               ELSE args.output
       IN  compress_file_call(input_file, output_file)
    /\ UNCHANGED <<fs, platform, PYPDF_AVAILABLE, args, input_files,
                   compression_level, target_size_bytes, i, results>>

\* compress_batch, lines 412-422: the next file of the batch
compress_batch_next ==
    /\ UNCHANGED <<engine, first_run>>
    /\ pc = "dispatch"
    /\ ~Single
    /\ i <= Len(input_files)
    /\ LET input_path == input_files[i]
       IN  IF IsSome(args.output_dir)
           THEN IF Val(args.output_dir) \in UnwritableDirs
                THEN /\ Exit("1", "PermissionError")
                     /\ UNCHANGED <<job, last, ret>>
                ELSE compress_file_call(input_path,
                        Some(DerivedOutput(Val(args.output_dir), input_path)))
           ELSE compress_file_call(input_path, None)
    /\ UNCHANGED <<fs, platform, PYPDF_AVAILABLE, args, input_files,
                   compression_level, target_size_bytes, i, results>>

\* main, line 633
failed_files == SelectSeq(results, LAMBDA r : ~r.success)

\* compress_batch, lines 425-429, and main, lines 630-642
main_batch_exit ==
    /\ UNCHANGED <<engine, first_run>>
    /\ pc = "dispatch"
    /\ ~Single
    /\ i > Len(input_files)
    /\ Exit(IF failed_files # <<>> THEN "1" ELSE "0", "none")
    /\ UNCHANGED <<fs, platform, PYPDF_AVAILABLE, args, input_files,
                   compression_level, target_size_bytes, i, results, job,
                   last, ret>>

----------------------------------------------------------------------------

Init ==
    /\ pc = "start"
    /\ fs = World
    /\ platform \in Systems
    /\ PYPDF_AVAILABLE \in BOOLEAN
    /\ args = NoArgs
    /\ input_files = <<>>
    /\ compression_level = "medium"
    /\ target_size_bytes = None
    /\ i = 1
    /\ results = <<>>
    /\ job = NoJob
    /\ last = NoCall
    /\ ret = NoRet
    /\ raised = "none"
    /\ exit_code = "none"
    /\ engine = <<>>
    /\ first_run = <<>>

Next ==
    \/ main_startup
    \/ main_single
    \/ compress_batch_next
    \/ search_try_config
    \/ search_fallback
    \/ oneshot_ghostscript
    \/ oneshot_pypdf
    \/ compress_file_return
    \/ main_batch_exit

Spec == Init /\ [][Next]_vars

----------------------------------------------------------------------------
(* Two runs of the target-size search on the same input, with an engine
   whose result depends on the configuration only *)

\* how a deterministic engine can end a call: it is not interrupted
DeterministicOutcomes == {o \in Outcomes : ~Interrupted(o)}

Engines == [1..(Len(configs) + 1) -> DeterministicOutcomes]

\* the --output-dir of the two runs: the output lands next to the input,
\* where a file of that name exists beforehand, or in an empty directory
RerunOutputDirArgs == {None, Some("d2")}

\* what a run leaves: the configuration it accepted (0 for none), the
\* success it reported and the size of the file at the final output path
\* (-1 when there is none)
Selection(f, j) ==
    [accepted |-> j.accepted, success |-> j.success,
     size |-> IF Exists(f, j.output_path)
              THEN get_file_size(f, j.output_path) ELSE -1]

\* main after startup (lines 589-608) for the command line
\* "a.pdf --target-size-mb 0.001 [--output-dir d2]"
InitRerun ==
    /\ pc = "dispatch"
    /\ fs = World
    /\ platform \in Systems
    /\ PYPDF_AVAILABLE = TRUE
    /\ \E output_dir \in RerunOutputDirArgs :
        args = [NoArgs EXCEPT !.output_dir = output_dir,
                              !.target_size_mb = Some(1)]
    /\ input_files = expand_file_patterns(World, <<A>>)
    /\ compression_level = "medium"
    /\ target_size_bytes = target_bytes(Some(1))
    /\ i = 1
    /\ results = <<>>
    /\ job = NoJob
    /\ last = NoCall
    /\ ret = NoRet
    /\ raised = "none"
    /\ exit_code = "none"
    /\ engine \in Engines
    /\ first_run = <<>>

\* the same command line is run again on the files the first run left:
\* main's startup (lines 589-608) with the same arguments
run_again ==
    /\ pc = "exited"
    /\ engine # <<>>
    /\ first_run = <<>>
    /\ first_run' = <<Selection(fs, job)>>
    /\ input_files' = expand_file_patterns(fs, <<A>>)
    /\ target_size_bytes' = target_bytes(args.target_size_mb)
    /\ compression_level' = args.quality
    /\ i' = 1
    /\ results' = <<>>
    /\ job' = NoJob
    /\ last' = NoCall
    /\ ret' = NoRet
    /\ raised' = "none"
    /\ exit_code' = "none"
    /\ pc' = "dispatch"
    /\ UNCHANGED <<fs, platform, PYPDF_AVAILABLE, args, engine>>

NextRerun ==
    \/ main_single
    \/ search_try_config
    \/ search_fallback
    \/ compress_file_return
    \/ run_again

SpecRerun == InitRerun /\ [][NextRerun]_vars

----------------------------------------------------------------------------
(* Properties *)

TargetMode == IsSome(target_size_bytes)

\* compress_file returned a value for the job held in job
JobReturned == ret # NoRet

\* the job passed the checks of its input and reached the compression
Compressing == job.cfg > 0

ValidFile(f, p) == Exists(f, p) /\ f[p].kind # "partial"

\* C1: after compress_file returns in target-size mode, exactly one of
\* these holds: a complete valid file exists at the final output path, or
\* the reported success is false and no file exists at the final output
\* path.
C1_OneFinalFileOrNone ==
    (JobReturned /\ TargetMode /\ Compressing) =>
        LET valid == ValidFile(fs, job.output_path)
            none == ~ret.success /\ ~Exists(fs, job.output_path)
        IN  (valid \/ none) /\ ~(valid /\ none)

\* C2: after compress_file returns in target-size mode, no file exists at
\* the job's temporary path temp_<output file name>.
C2_NoTemporaryLeft ==
    (JobReturned /\ TargetMode /\ Compressing) =>
        ~Exists(fs, TempOutput(job.output_path))

C3_Step ==
    /\ job'.adv_calls = job.adv_calls + 1 =>
        /\ TargetMode
        /\ job.accepted = 0
        /\ job'.adv_calls <= Len(configs)
        /\ last'.tool = "gs_advanced"
        /\ last'.preset = configs[job'.adv_calls].preset
        /\ last'.dpi = configs[job'.adv_calls].dpi
        /\ last'.jpeg_q = configs[job'.adv_calls].jpeg_q
        /\ last'.out = TempOutput(job.output_path)
        /\ job'.accepted # 0 =>
            /\ job'.accepted = job'.adv_calls
            /\ last'.ok
            /\ last'.size <= Val(target_size_bytes)
            /\ ~job.met
        /\ ( /\ last'.ok
             /\ last'.size <= Val(target_size_bytes)
             /\ ~(platform = "Windows" /\ Exists(fs, job.output_path)) )
           => job'.accepted = job'.adv_calls
    /\ (TargetMode /\ job'.gs_calls = job.gs_calls + 1) => job.accepted = 0

JobOver ==
    /\ Compressing
    /\ \/ JobReturned
       \/ pc = "exited" /\ raised = "ZeroDivisionError"

\* C4: if no configuration is accepted after the whole table has been tried
\* (each configuration once), exactly one further call is made, with the
\* screen preset and the final output path; if it succeeds the job reports
\* success, if it fails the job reports failure; at most table-length + 1
\* engine calls are made.
C4_FallbackOnce ==
    /\ pc = "fallback" => job.adv_calls = Len(configs) /\ job.accepted = 0
    /\ (TargetMode /\ Compressing) =>
        /\ job.adv_calls + job.gs_calls <= Len(configs) + 1
        /\ job.gs_calls = 1 =>
            /\ last.tool = "gs"
            /\ last.preset = "/screen"
            /\ last.out = job.output_path
    /\ (TargetMode /\ JobOver /\ job.accepted = 0) =>
        /\ job.gs_calls = 1
        /\ job.gs_ok => ret.success /\ ret.path = job.output_path
        /\ ~job.gs_ok => JobReturned /\ ~ret.success

\* the batch loop was entered
BatchRun == Len(input_files) > 1 /\ ~IsSome(args.output)

\* C5: a job of a batch whose compression fails does not stop the batch:
\* when the batch has ended without an exception, the result list has one
\* entry per input, in input order, and the outputs of the succeeding jobs
\* exist.
C5_BatchIsolation ==
    (BatchRun /\ pc = "exited" /\ raised = "none") =>
        /\ Len(results) = Len(input_files)
        /\ \A k \in 1..Len(results) :
            /\ results[k].input_path = input_files[k]
            /\ results[k].success => Exists(fs, results[k].output_path)

\* C6: an exception raised while one job of a batch is processed is
\* recorded as a failure of that file and the remaining jobs are still
\* processed, so a batch that was not interrupted ends with one result per
\* input.
C6_ExceptionIsPerFile ==
    (BatchRun /\ pc = "exited" /\ raised # "KeyboardInterrupt") =>
        Len(results) = Len(input_files)

\* C7: in single-shot mode compress_file calls the engine once with the
\* preset of the compression level, calls the library once only if the
\* engine call failed and the library is available, never calls the library
\* after an engine success, and returns failure only if both failed.
C7_SingleShot ==
    (~TargetMode /\ Compressing) =>
        /\ job.adv_calls = 0
        /\ job.gs_calls <= 1
        /\ job.lib_calls <= 1
        /\ job.lib_calls = 1 =>
            job.gs_calls = 1 /\ ~job.gs_ok /\ PYPDF_AVAILABLE
        /\ last.tool = "gs" =>
            /\ last.preset = gs_settings[compression_level]
            /\ last.out = job.output_path
        /\ last.tool = "pypdf" => last.out = job.output_path
        /\ (pc = "finish" \/ JobReturned) =>
            /\ job.gs_calls = 1
            /\ (~job.gs_ok /\ PYPDF_AVAILABLE) => job.lib_calls = 1
        /\ (JobReturned /\ ~ret.success) =>
            /\ ~job.gs_ok
            /\ job.lib_calls = 1 => last.tool = "pypdf" /\ ~last.ok

\* a single-shot job that returned success through the library after the
\* engine call failed
C7_Witness ==
    /\ ~TargetMode
    /\ JobReturned
    /\ ret.success
    /\ job.gs_calls = 1
    /\ ~job.gs_ok
    /\ job.lib_calls = 1

\* C8: after a call of compress_with_ghostscript or
\* compress_with_ghostscript_advanced has returned, the requested output
\* file is present if and only if the call returned success.
C8_OutputIffSuccess ==
    (last.tool \in {"gs", "gs_advanced"} /\ raised # "KeyboardInterrupt") =>
        (last.present <=> last.ok)

\* every job of the run returned success
AllJobsSucceeded ==
    /\ raised = "none"
    /\ input_files # <<>>
    /\ IF Single THEN ret.success
       ELSE /\ BatchRun
            /\ Len(results) = Len(input_files)
            /\ \A k \in 1..Len(results) : results[k].success

\* C9: the process exit code is 0 exactly when every job succeeded, and 1
\* on any failure, a user interrupt included.
C9_ExitCode ==
    pc = "exited" =>
        /\ exit_code \in {"0", "1"}
        /\ exit_code = "0" <=> AllJobsSucceeded

\* the compressor was created (main, line 608)
Created ==
    pc \in {"dispatch", "search", "fallback", "oneshot", "library", "finish",
            "rejected"}

\* C10: whenever --target-size-mb is given, with any value, the jobs run
\* the target-size search with the target in bytes equal to the value times
\* 1024*1024 truncated to an integer, never the single-shot path.
C10_TargetAlwaysActivates ==
    (Created /\ IsSome(args.target_size_mb)) =>
        /\ target_size_bytes =
              Some(Trunc(Val(args.target_size_mb) * 1024 * 1024, 1000))
        /\ pc \notin {"oneshot", "library"}

\* C11: when a user interrupt ends a job, the process has exited with a
\* non-zero status, no file is left at the job's temporary path and no
\* half-written file is left at the final output path.
C11_InterruptCleansUp ==
    (raised = "KeyboardInterrupt" /\ Compressing) =>
        /\ pc = "exited"
        /\ exit_code \notin {"0", "none"}
        /\ TargetMode => ~Exists(fs, TempOutput(job.output_path))
        /\ ~( /\ Exists(fs, job.output_path)
              /\ fs[job.output_path].kind = "partial" )

C13_Step ==
    (pc = "search" /\ job'.adv_calls = job.adv_calls + 1) =>
        LET out == job.output_path
            target == Val(target_size_bytes)
        IN  /\ last'.out # out
            /\ last'.out = TempOutput(out)
            /\ IF job'.accepted # 0
               THEN /\ last'.ok
                    /\ last'.size <= target
                    /\ Exists(fs', out)
                    /\ fs'[out] = [kind |-> "out", size |-> last'.size]
                    /\ ~Exists(fs', last'.out)
               ELSE /\ Exists(fs', out) <=> Exists(fs, out)
                    /\ Exists(fs, out) => fs'[out] = fs[out]
            /\ (last'.ok /\ last'.size > target) =>
                /\ job'.accepted = 0
                /\ ~Exists(fs', last'.out)

\* C12: for a fixed input file, configuration table, target size and a
\* deterministic engine, two runs of the target-size search select the
\* same configuration and leave a final output of the same size, also when
\* the second run starts from the files the first run left.
C12_RepeatedRunsAgree ==
    (first_run # <<>> /\ pc = "exited") =>
        /\ job.accepted = first_run[1].accepted
        /\ Selection(fs, job).size = first_run[1].size

\* C13: every call of the loop over the table writes to the temporary path,
\* which differs from the final output path; the file at the final output
\* path changes in the loop only by the move of an accepted candidate
\* (size <= target), and the file of a candidate above the target is
\* deleted in the same iteration, before the next configuration is invoked.
C13_OnlyAcceptedReachesOutput == [][C13_Step]_vars

\* the loop goes on after a candidate above the target, whose temporary
\* file is gone, with the final output path as it was when the run started
C13_Witness ==
    /\ pc = "search"
    /\ last.tool = "gs_advanced"
    /\ last.ok
    /\ last.size > Val(target_size_bytes)
    /\ ~Exists(fs, last.out)
    /\ Exists(fs, job.output_path)
    /\ fs[job.output_path] = World[job.output_path]

\* the final output path of the k-th job of a batch (compress_batch, lines
\* 416-420, and compress_file, lines 324-325)
BatchOutput(k) ==
    IF IsSome(args.output_dir)
    THEN DerivedOutput(Val(args.output_dir), input_files[k])
    ELSE DerivedOutput(input_files[k].dir, input_files[k])

\* the paths that belong to the k-th job: its final output and, in
\* target-size mode, its temporary file
Owned(k) ==
    {BatchOutput(k)} \cup
    (IF TargetMode THEN {TempOutput(BatchOutput(k))} ELSE {})

SameAt(f, g, p) ==
    /\ Exists(f, p) <=> Exists(g, p)
    /\ Exists(f, p) => f[p] = g[p]

C14_Step ==
    (BatchRun /\ pc \in {"search", "fallback", "oneshot", "library"}) =>
        \A k \in (1..Len(input_files)) \ {i} :
            \A p \in Owned(k) : SameAt(fs, fs', p)

\* C14: while one job of a batch runs, no file at the final output path or
\* the temporary path of another job of the batch is written, replaced,
\* renamed or deleted.
C14_JobsDoNotCollide == [][C14_Step]_vars

\* C15: the configuration table is non-increasing in quality: each entry's
\* image DPI and JPEG quality are at most those of the entry before it, and
\* so are those of each call of the search compared with the call before.
C15_TableMonotonic ==
    /\ \A k \in 1..(Len(configs) - 1) :
        /\ configs[k + 1].dpi <= configs[k].dpi
        /\ configs[k + 1].jpeg_q <= configs[k].jpeg_q
    /\ (last.tool = "gs_advanced" /\ job.adv_calls > 1) =>
        /\ last.dpi <= configs[job.adv_calls - 1].dpi
        /\ last.jpeg_q <= configs[job.adv_calls - 1].jpeg_q

\* the search has called the engine with the last entry of the table
C15_Witness ==
    /\ last.tool = "gs_advanced"
    /\ job.adv_calls = Len(configs)
    /\ last.dpi = 100
    /\ last.jpeg_q = 60

\* C16: no input file of the run is changed: no invoker is given an input
\* path as its output, and every input file exists with the content it had
\* when the run started.
C16_InputsUntouched ==
    \A k \in 1..Len(input_files) :
        /\ last.tool # "none" => last.out # input_files[k]
        /\ Exists(fs, input_files[k])
        /\ fs[input_files[k]] = World[input_files[k]]

====
